---- MODULE Spec2Model ----
(***************************************************************************)
(* Model of the solana-messaging program                                   *)
(* (src/programs/solana-messaging/src/lib.rs).                             *)
(*                                                                         *)
(* The ledger holds the accounts the program touches: Message records at   *)
(* their derived addresses, token mints and associated token accounts.     *)
(* An instruction is one atomic step: the account constraints declared by  *)
(* its #[derive(Accounts)] struct are applied in declaration order, then   *)
(* the handler body runs, and an Err from either makes the runtime discard *)
(* every account change of the instruction.                                *)
(*                                                                         *)
(* A payload is a pair of its byte length and a tag that tells two texts   *)
(* of the same length apart; the program only ever takes the length of a   *)
(* payload and moves it.  The payer is taken to hold enough lamports for   *)
(* rent; the source fixes no amounts.                                      *)
(***************************************************************************)
EXTENDS Integers, FiniteSets, TLC

VARIABLES messages, mints, tokens, clock, last

vars == <<messages, mints, tokens, clock, last>>

\* ---------------------------------------------------------------- bounds
NumMints == 2
MaxClock == 1

\* ------------------------------------------------------ program constants
MaxContentLen == 500

\* Identities that send and are sent to, and one more that only ever calls
\* Receive.  The default Pubkey (all zero bytes) is none of them.
Keys == {"alice", "bob"}
Callers == Keys \cup {"carol"}
DefaultPubkey == "default"
MintKeys == 1..NumMints
Pairs == Keys \X Keys

\* Payload lengths around both limits of the validation, and two distinct
\* texts of one length.
Payloads ==
    { [len |-> 0, tag |-> "e"],
      [len |-> 1, tag |-> "a"],
      [len |-> 1, tag |-> "b"],
      [len |-> MaxContentLen, tag |-> "a"],
      [len |-> MaxContentLen + 1, tag |-> "a"] }

\* String::len and String::is_empty
Len(content) == content.len

IsEmpty(content) == content.len = 0

\* ------------------------------------------------------------- addresses
\* Pubkey::find_program_address for the seeds ["message", sender, recipient]:
\* the address is a function of the seeds (here the pair itself) and the bump
\* is the canonical nonce of that address.  The hash is abstracted by a fixed
\* function of the seeds.
SeedByte(key) == CASE key = "alice" -> 1 [] key = "bob" -> 2 [] OTHER -> 0

FindProgramAddress(sender, recipient) ==
    [address |-> <<sender, recipient>>,
     bump |-> 255 - ((7 * SeedByte(sender) + 3 * SeedByte(recipient)) % 5)]

\* Pubkey::create_program_address with an explicit bump: only the canonical
\* bump of the seeds yields the address the record lives at.
CreateProgramAddress(sender, recipient, bump) ==
    IF sender \in Keys /\ recipient \in Keys
       /\ bump = FindProgramAddress(sender, recipient).bump
    THEN <<sender, recipient>>
    ELSE <<DefaultPubkey, DefaultPubkey>>

\* The associated token account of (mint, authority).
AssociatedToken(mint, authority) == <<mint, authority>>

\* ---------------------------------------------------------------- ledger
Ledger == [messages |-> messages, mints |-> mints, tokens |-> tokens]

Extend(f, k, v) == [x \in (DOMAIN f) \cup {k} |-> IF x = k THEN v ELSE f[x]]

\* A freshly allocated Message account: every field zeroed.
ZeroedMessage ==
    [sender |-> DefaultPubkey, recipient |-> DefaultPubkey,
     content |-> [len |-> 0, tag |-> "e"],
     timestamp |-> 0, nft_mint |-> 0, bump |-> 0]

\* Variant: the record account is created only if it is not there yet
\* (init_if_needed), so an occupied address is no failure.
InitMessage_IfNeeded(L, sender, recipient) ==
    LET addr == FindProgramAddress(sender, recipient).address IN
    IF addr \in DOMAIN L.messages
    THEN [err |-> FALSE, ledger |-> L]
    ELSE [err |-> FALSE,
          ledger |-> [L EXCEPT !.messages = Extend(@, addr, ZeroedMessage)]]

\* #[account(init, ..., seeds = [b"message", sender, recipient], bump)]
InitMessage(L, sender, recipient) ==
    LET addr == FindProgramAddress(sender, recipient).address IN
    IF addr \in DOMAIN L.messages
    THEN [err |-> TRUE, ledger |-> L]
    ELSE [err |-> FALSE,
          ledger |-> [L EXCEPT !.messages = Extend(@, addr, ZeroedMessage)]]

\* #[account(init, mint::decimals = 0, mint::authority = sender)]
InitMint(L, mint, sender) ==
    IF mint \in DOMAIN L.mints
    THEN [err |-> TRUE, ledger |-> L]
    ELSE [err |-> FALSE,
          ledger |-> [L EXCEPT !.mints =
                        Extend(@, mint, [decimals |-> 0, authority |-> sender])]]

\* #[account(init, associated_token::mint = ..., associated_token::authority = ...)]
InitAssociatedToken(L, mint, authority) ==
    LET ata == AssociatedToken(mint, authority) IN
    IF ata \in L.tokens
    THEN [err |-> TRUE, ledger |-> L]
    ELSE [err |-> FALSE, ledger |-> [L EXCEPT !.tokens = @ \cup {ata}]]

\* The accounts of SendMessage, constrained in declaration order.
SendMessageAccounts(L, sender, recipient, mint) ==
    LET a == InitMessage(L, sender, recipient) IN
    IF a.err THEN a ELSE
    LET b == InitMint(a.ledger, mint, sender) IN
    IF b.err THEN b ELSE
    LET c == InitAssociatedToken(b.ledger, mint, recipient) IN
    IF c.err THEN c ELSE
    InitAssociatedToken(c.ledger, mint, sender)

\* Variant: the emptiness check is missing.
ValidateContent_NoEmptyCheck(content) ==
    IF ~(Len(content) <= MaxContentLen) THEN "MessageTooLong"
    ELSE "Ok"

\* Variant: the length limit is exclusive.
ValidateContent_StrictLimit(content) ==
    IF ~(Len(content) < MaxContentLen) THEN "MessageTooLong"
    ELSE IF IsEmpty(content) THEN "EmptyMessage"
    ELSE "Ok"

\* The two require! lines of send_message, in their order.
ValidateContent(content) ==
    IF ~(Len(content) <= MaxContentLen) THEN "MessageTooLong"
    ELSE IF IsEmpty(content) THEN "EmptyMessage"
    ELSE "Ok"

\* Variant: the timestamp assignment is missing.
WriteMessage_NoTimestamp(L, sender, recipient, content, now, mint, bump) ==
    LET addr == FindProgramAddress(sender, recipient).address IN
    [L EXCEPT !.messages[addr] =
        [sender |-> sender, recipient |-> recipient, content |-> content,
         timestamp |-> 0, nft_mint |-> mint, bump |-> bump]]

\* The six assignments of send_message.
WriteMessage(L, sender, recipient, content, now, mint, bump) ==
    LET addr == FindProgramAddress(sender, recipient).address IN
    [L EXCEPT !.messages[addr] =
        [sender |-> sender, recipient |-> recipient, content |-> content,
         timestamp |-> now, nft_mint |-> mint, bump |-> bump]]

\* Variant: a failed instruction keeps the accounts it had created.
Abort_KeepsPartial(before, partial) == partial

\* An instruction that returns Err: the runtime keeps none of its changes.
Abort(before, partial) == before

\* Variant: the payload is validated before the accounts are constrained.
send_message_ValidatesFirst(L, sender, recipient, content, mint, now) ==
    LET v == ValidateContent(content) IN
    IF v # "Ok"
    THEN [result |-> v, ledger |-> L]
    ELSE
      LET acc == SendMessageAccounts(L, sender, recipient, mint) IN
      IF acc.err
      THEN [result |-> "AccountAlreadyInUse", ledger |-> Abort(L, acc.ledger)]
      ELSE [result |-> "Ok",
            ledger |-> WriteMessage(acc.ledger, sender, recipient, content, now,
                          mint, FindProgramAddress(sender, recipient).bump)]

\* send_message as one instruction: accounts, then body.
send_message(L, sender, recipient, content, mint, now) ==
    LET acc == SendMessageAccounts(L, sender, recipient, mint) IN
    IF acc.err
    THEN [result |-> "AccountAlreadyInUse", ledger |-> Abort(L, acc.ledger)]
    ELSE
      LET v == ValidateContent(content) IN
      IF v # "Ok"
      THEN [result |-> v, ledger |-> Abort(L, acc.ledger)]
      ELSE [result |-> "Ok",
            ledger |-> WriteMessage(acc.ledger, sender, recipient, content, now,
                          mint, FindProgramAddress(sender, recipient).bump)]

\* The accounts of ReceiveMessage: the record must exist and sit at the
\* address derived from its own sender, recipient and bump.
ReceiveMessageAccounts(L, addr) ==
    IF addr \notin DOMAIN L.messages THEN "AccountNotInitialized"
    ELSE LET m == L.messages[addr] IN
         IF CreateProgramAddress(m.sender, m.recipient, m.bump) # addr
         THEN "ConstraintSeeds"
         ELSE "Ok"

\* Variant: the caller is compared with the stored sender.
receive_message_ChecksSender(L, addr, caller) ==
    LET acc == ReceiveMessageAccounts(L, addr) IN
    IF acc # "Ok"
    THEN [result |-> acc, ledger |-> L]
    ELSE IF ~(L.messages[addr].sender = caller)
         THEN [result |-> "UnauthorizedRecipient", ledger |-> L]
         ELSE [result |-> "Ok", ledger |-> L]

\* Variant: a successful Receive marks the record by clearing its content.
receive_message_Marks(L, addr, caller) ==
    LET acc == ReceiveMessageAccounts(L, addr) IN
    IF acc # "Ok"
    THEN [result |-> acc, ledger |-> L]
    ELSE IF ~(L.messages[addr].recipient = caller)
         THEN [result |-> "UnauthorizedRecipient", ledger |-> L]
         ELSE [result |-> "Ok",
               ledger |-> [L EXCEPT !.messages[addr].content =
                                        [len |-> 0, tag |-> "e"]]]

\* Variant: a successful Receive closes the record account.
receive_message_Closes(L, addr, caller) ==
    LET acc == ReceiveMessageAccounts(L, addr) IN
    IF acc # "Ok"
    THEN [result |-> acc, ledger |-> L]
    ELSE IF ~(L.messages[addr].recipient = caller)
         THEN [result |-> "UnauthorizedRecipient", ledger |-> L]
         ELSE [result |-> "Ok",
               ledger |-> [L EXCEPT !.messages =
                             [x \in (DOMAIN @) \ {addr} |-> @[x]]]]

\* receive_message as one instruction.
receive_message(L, addr, caller) ==
    LET acc == ReceiveMessageAccounts(L, addr) IN
    IF acc # "Ok"
    THEN [result |-> acc, ledger |-> L]
    ELSE IF ~(L.messages[addr].recipient = caller)
         THEN [result |-> "UnauthorizedRecipient", ledger |-> L]
         ELSE [result |-> "Ok", ledger |-> L]

\* ----------------------------------------------------------------- state
\* last records the instruction just executed: its inputs, the clock it read,
\* its result and the ledger it started from.
NoOp ==
    [op |-> "none", sender |-> DefaultPubkey, recipient |-> DefaultPubkey,
     content |-> [len |-> 0, tag |-> "e"], mint |-> 0,
     addr |-> <<DefaultPubkey, DefaultPubkey>>,
     caller |-> DefaultPubkey, now |-> 0, result |-> "Ok",
     pre |-> [messages |-> <<>>, mints |-> <<>>, tokens |-> {}]]

Init ==
    /\ messages = <<>>
    /\ mints = <<>>
    /\ tokens = {}
    /\ clock = 0
    /\ last = NoOp

Commit(out) ==
    /\ messages' = out.ledger.messages
    /\ mints' = out.ledger.mints
    /\ tokens' = out.ledger.tokens

Send ==
    \E sender \in Keys, recipient \in Keys, content \in Payloads, mint \in MintKeys :
        LET out == send_message(Ledger, sender, recipient, content, mint, clock) IN
        /\ Commit(out)
        /\ last' = [NoOp EXCEPT !.op = "Send", !.sender = sender,
                       !.recipient = recipient, !.content = content,
                       !.mint = mint, !.now = clock,
                       !.addr = FindProgramAddress(sender, recipient).address,
                       !.result = out.result, !.pre = Ledger]
        /\ UNCHANGED clock

Receive ==
    \E addr \in Pairs, caller \in Callers :
        LET out == receive_message(Ledger, addr, caller) IN
        /\ Commit(out)
        /\ last' = [NoOp EXCEPT !.op = "Receive", !.addr = addr,
                       !.caller = caller, !.now = clock,
                       !.result = out.result, !.pre = Ledger]
        /\ UNCHANGED clock

\* The host clock advances between instructions.
Tick ==
    /\ clock < MaxClock
    /\ clock' = clock + 1
    /\ last' = [NoOp EXCEPT !.op = "Tick", !.now = clock, !.pre = Ledger]
    /\ UNCHANGED <<messages, mints, tokens>>

Next == Send \/ Receive \/ Tick

Spec == Init /\ [][Next]_vars

\* ---------------------------------------------------------------- claims
IsSend == last.op = "Send"

IsReceive == last.op = "Receive"

\* The record at the address of the last instruction was there before it ran.
WasPresent == last.addr \in DOMAIN last.pre.messages

\* Every account the last Send had to initialise was free before it ran: no
\* record for the pair, no mint and no holding account at the supplied
\* addresses, and two distinct holding accounts.
AccountsWereFree ==
    /\ ~WasPresent
    /\ last.mint \notin DOMAIN last.pre.mints
    /\ AssociatedToken(last.mint, last.recipient) \notin last.pre.tokens
    /\ AssociatedToken(last.mint, last.sender) \notin last.pre.tokens
    /\ AssociatedToken(last.mint, last.recipient)
         # AssociatedToken(last.mint, last.sender)

\* C1: a Send with a payload of 1..500 bytes, issued while no record exists
\* for (sender, recipient) and with a mint account not yet in use, succeeds,
\* and afterwards the record of the pair is present with content equal to
\* the payload.
C1_SendRoundTrip ==
    (/\ IsSend
     /\ Len(last.content) >= 1
     /\ Len(last.content) <= MaxContentLen
     /\ ~WasPresent
     /\ last.mint \notin DOMAIN last.pre.mints)
    => (/\ last.result = "Ok"
        /\ last.addr \in DOMAIN messages
        /\ messages[last.addr].content = last.content)

\* C2 as stated, for distinct sender and recipient: a Send with a payload of
\* length 0 fails with EmptyMessage.
C2_EmptyAlwaysEmptyMessage ==
    (IsSend /\ Len(last.content) = 0 /\ last.sender # last.recipient)
    => last.result = "EmptyMessage"

\* C2: a Send with a payload of length 0 never succeeds; it fails with
\* EmptyMessage exactly when every account the Send initialises was free,
\* and with the host's account-already-in-use failure otherwise.
C2_EmptyPayload ==
    (IsSend /\ Len(last.content) = 0)
    => (/\ last.result # "Ok"
        /\ (last.result = "EmptyMessage") <=> AccountsWereFree
        /\ (last.result = "AccountAlreadyInUse") <=> ~AccountsWereFree)

C2_Witness ==
    /\ IsSend
    /\ Len(last.content) = 0
    /\ AccountsWereFree
    /\ last.result = "EmptyMessage"

\* C3 as stated, for distinct sender and recipient: a Send with a payload of
\* more than 500 bytes fails with MessageTooLong.
C3_LongAlwaysMessageTooLong ==
    (IsSend /\ Len(last.content) > MaxContentLen /\ last.sender # last.recipient)
    => last.result = "MessageTooLong"

\* C3: a Send with a payload of more than 500 bytes never succeeds; it fails
\* with MessageTooLong exactly when every account the Send initialises was
\* free, and with the host's account-already-in-use failure otherwise; a
\* payload of exactly 500 bytes is never rejected as too long, and is
\* accepted when the accounts were free.
C3_LongPayload ==
    /\ (IsSend /\ Len(last.content) > MaxContentLen)
       => (/\ last.result # "Ok"
           /\ (last.result = "MessageTooLong") <=> AccountsWereFree
           /\ (last.result = "AccountAlreadyInUse") <=> ~AccountsWereFree)
    /\ (IsSend /\ Len(last.content) = MaxContentLen)
       => (/\ last.result # "MessageTooLong"
           /\ AccountsWereFree => last.result = "Ok")

C3_Witness ==
    /\ IsSend
    /\ Len(last.content) = MaxContentLen + 1
    /\ AccountsWereFree
    /\ last.result = "MessageTooLong"

\* C4: once a record exists for a pair, every later Send for that pair fails,
\* whatever its payload and mint, and the record keeps the content, timestamp
\* and nft_mint it had.
C4_AtMostOncePerPair ==
    (IsSend /\ WasPresent)
    => (/\ last.result # "Ok"
        /\ last.addr \in DOMAIN messages
        /\ messages[last.addr].content = last.pre.messages[last.addr].content
        /\ messages[last.addr].timestamp = last.pre.messages[last.addr].timestamp
        /\ messages[last.addr].nft_mint = last.pre.messages[last.addr].nft_mint)

\* A second Send for the pair with a valid, different payload, a fresh mint
\* and a later clock.
C4_Witness ==
    /\ IsSend
    /\ WasPresent
    /\ Len(last.content) >= 1
    /\ Len(last.content) <= MaxContentLen
    /\ last.content # last.pre.messages[last.addr].content
    /\ last.mint \notin DOMAIN last.pre.mints
    /\ last.now > last.pre.messages[last.addr].timestamp
    /\ last.result # "Ok"

\* C5: a Receive on a present record succeeds if and only if the caller is
\* the record's stored recipient, and every other caller fails with
\* UnauthorizedRecipient.
C5_ReceiveAuthorization ==
    (IsReceive /\ WasPresent)
    => (/\ (last.result = "Ok")
             <=> (last.caller = last.pre.messages[last.addr].recipient)
        /\ (last.result = "UnauthorizedRecipient")
             <=> (last.caller # last.pre.messages[last.addr].recipient))

\* The record's sender, who is not its recipient, is turned away.
C5_Witness ==
    /\ IsReceive
    /\ WasPresent
    /\ last.caller = last.pre.messages[last.addr].sender
    /\ last.caller # last.pre.messages[last.addr].recipient
    /\ last.result = "UnauthorizedRecipient"

C7_FailedSendChangesNothing ==
    (IsSend /\ last.result # "Ok") => Ledger = last.pre

\* A Send whose accounts were all initialised and whose payload was then
\* rejected.
C7_Witness ==
    /\ IsSend
    /\ AccountsWereFree
    /\ last.result \in {"EmptyMessage", "MessageTooLong"}
    /\ last.pre.messages # <<>>

C9_RecordFields ==
    \A addr \in DOMAIN messages :
        LET m == messages[addr] IN
        /\ m.sender = addr[1]
        /\ m.recipient = addr[2]
        /\ Len(m.content) >= 1
        /\ Len(m.content) <= MaxContentLen
        /\ m.bump = FindProgramAddress(addr[1], addr[2]).bump
        /\ m.timestamp <= clock
        /\ m.nft_mint \in DOMAIN mints
        /\ IF addr \in DOMAIN last.pre.messages
           THEN /\ m.timestamp = last.pre.messages[addr].timestamp
                /\ m.nft_mint = last.pre.messages[addr].nft_mint
           ELSE /\ m.timestamp = last.now
                /\ m.nft_mint = last.mint
                /\ m.sender = last.sender
                /\ m.recipient = last.recipient

\* A record created after the clock has advanced.
C9_Witness ==
    /\ IsSend
    /\ last.result = "Ok"
    /\ last.now > 0
    /\ messages[last.addr].timestamp = last.now
    /\ messages[last.addr].nft_mint = last.mint

\* C10: a Send for a pair whose record is present fails with the host's
\* account-already-in-use failure for every payload; EmptyMessage and
\* MessageTooLong are returned only when no record exists for the pair,
\* EmptyMessage only for a payload of length 0 and MessageTooLong only for
\* one of more than 500 bytes.
C10_ErrorPrecedence ==
    IsSend
    => (/\ WasPresent => last.result = "AccountAlreadyInUse"
        /\ last.result \in {"EmptyMessage", "MessageTooLong"} => ~WasPresent
        /\ last.result = "EmptyMessage" => Len(last.content) = 0
        /\ last.result = "MessageTooLong" => Len(last.content) > MaxContentLen)

\* A Send with an empty payload for an occupied pair, the mint being free.
C10_Witness ==
    /\ IsSend
    /\ WasPresent
    /\ last.mint \notin DOMAIN last.pre.mints
    /\ Len(last.content) = 0
    /\ last.result = "AccountAlreadyInUse"

====
